---- MODULE Spec2Model ----
(***************************************************************************)
(* ZhjwClient (src/zhjw.py, src/example.py): the SSO redirect-chain login  *)
(* and the login-success classifier.                                       *)
(*                                                                         *)
(* A page body is a sequence of tokens.  The four literal markers of the   *)
(* pattern table, the opening tag <span class="glyphicon-class"> and the   *)
(* closing tag </span> are one token each; the remaining tokens are single *)
(* characters: the two characters of the logout caption (TUI, CHU), an     *)
(* ordinary name character (ZHANG), a blank (SP) and a stray "<" (LT).     *)
(* The source strings are Chinese; the tokens carry ASCII names.           *)
(***************************************************************************)
EXTENDS Naturals, Sequences, FiniteSets

\* ------------------------------------------------------------ bounds ----
MaxLen == 4        \* longest body handed to the classifier on its own
MaxPageLen == 2    \* longest enumerated landing-page body inside a login run

\* ------------------------------------------------------------ tokens ----
TITLE == "TITLE"       \* the platform title literal      (patterns[0])
CENTER == "CENTER"     \* the "personal center" literal   (patterns[1])
DESKTOP == "DESKTOP"   \* the "my desktop" literal        (patterns[2])
RECORD == "RECORD"     \* the "academic record" literal   (patterns[3])
OPEN == "OPEN"         \* <span class="glyphicon-class">
CLOSE == "CLOSE"       \* </span>
TUI == "TUI"           \* first character of the logout caption
CHU == "CHU"           \* second character of the logout caption
ZHANG == "ZHANG"       \* a character of a display name
SP == "SP"             \* a blank
LT == "LT"             \* the character "<" outside the two tags

Literals == <<TITLE, CENTER, DESKTOP, RECORD>>

Token == {TITLE, CENTER, DESKTOP, RECORD, OPEN, CLOSE, TUI, CHU, ZHANG, SP, LT}

\* The logout caption, the value the name pattern is meant to exclude.
Logout == <<TUI, CHU>>

\* every sequence over S of length at most n
SeqsUpTo(S, n) == UNION {[1..m -> S] : m \in 0..n}

\* Pages a server of this kind answers with: nothing, the login wall with its
\* logout control, a shell showing only the student's name, only a blank
\* name element, and the full authenticated shell.
SamplePages ==
    {<<>>,
     <<OPEN, TUI, CHU, CLOSE>>,
     <<OPEN, ZHANG, CLOSE>>,
     <<OPEN, SP, CLOSE>>,
     <<TITLE, CENTER, DESKTOP, RECORD, OPEN, ZHANG, CLOSE>>}

\* Longer pages for the classifier on its own: the authenticated shell, which
\* shows the student's name next to the logout control (in either order),
\* the login wall under the platform title, and two logout controls.
LongPages ==
    {<<OPEN, ZHANG, CLOSE, OPEN, TUI, CHU, CLOSE>>,
     <<OPEN, TUI, CHU, CLOSE, OPEN, ZHANG, CLOSE>>,
     <<OPEN, SP, TUI, CHU, SP, CLOSE>>,
     <<OPEN, TUI, CHU, CLOSE, TITLE>>,
     <<OPEN, TUI, CHU, CLOSE, OPEN, SP, TUI, CHU, CLOSE>>}

Bodies == SeqsUpTo(Token, MaxLen) \cup SamplePages \cup LongPages
PageBodies == SeqsUpTo(Token, MaxPageLen) \cup SamplePages
MidBodies == SamplePages

\* ------------------------------------------------------- the classifier --
NoMatch == <<>>

\* The character class [^<TUI CHU] of patterns[4]: one character that is
\* neither "<" nor one of the two characters of the logout caption.  The two
\* tags begin with "<"; every other token is made of admitted characters.
InClassNoExclusion(t) == t \notin {LT, OPEN, CLOSE}
InClass(t) == t \notin {LT, TUI, CHU, OPEN, CLOSE}

\* re.search of a literal pattern: the matched text, or NoMatch.
SearchLiteralAtStart(lit, html) ==
    IF Len(html) > 0 /\ html[1] = lit THEN <<lit>> ELSE NoMatch
SearchLiteral(lit, html) ==
    IF \E k \in 1..Len(html) : html[k] = lit THEN <<lit>> ELSE NoMatch

\* positions (i, j) at which OPEN ([class])+ CLOSE matches
SpanMatches(html) ==
    {ij \in (1..Len(html)) \X (1..Len(html)) :
        /\ html[ij[1]] = OPEN
        /\ html[ij[2]] = CLOSE
        /\ ij[2] > ij[1] + 1
        /\ \A k \in (ij[1] + 1)..(ij[2] - 1) : InClass(html[k])}

\* re.search of patterns[4]: the leftmost match, match.group(), or NoMatch.
SearchSpan(html) ==
    IF SpanMatches(html) = {} THEN NoMatch
    ELSE LET ij == CHOOSE m \in SpanMatches(html) :
                       \A n \in SpanMatches(html) : m[1] <= n[1]
         IN  SubSeq(html, ij[1], ij[2])

NumPatterns == 5

Search(p, html) ==
    IF p <= Len(Literals) THEN SearchLiteral(Literals[p], html) ELSE SearchSpan(html)

\* The for loop over patterns: the match of the first pattern, in declared
\* order, that matches; NoMatch when the loop runs to its end.
FirstMatchFirstPatternOnly(p, html) == Search(p, html)
FirstMatchLastWins(p, html) ==
    LET ps == {q \in p..NumPatterns : Search(q, html) # NoMatch}
    IN  IF ps = {} THEN NoMatch
        ELSE Search(CHOOSE q \in ps : \A r \in ps : r <= q, html)
RECURSIVE FirstMatch(_, _)
FirstMatch(p, html) ==
    IF p > NumPatterns THEN NoMatch
    ELSE IF Search(p, html) # NoMatch THEN Search(p, html)
    ELSE FirstMatch(p + 1, html)

\* The patterns the loop ran re.search on before it returned.
RECURSIVE Searched(_, _)
Searched(p, html) ==
    IF p > NumPatterns THEN <<>>
    ELSE IF Search(p, html) # NoMatch THEN <<p>>
    ELSE <<p>> \o Searched(p + 1, html)

check_login_success(html) == FirstMatch(1, html) # NoMatch

\* Leading and trailing blanks removed (str.strip).
RECURSIVE Trim(_)
Trim(s) ==
    IF s = <<>> THEN s
    ELSE IF Head(s) = SP THEN Trim(Tail(s))
    ELSE IF s[Len(s)] = SP THEN Trim(SubSeq(s, 1, Len(s) - 1))
    ELSE s

\* ------------------------------------------------------- collaborators --
None == "None"
TicketURLs == {"http://zhjw.qfnu.edu.cn/sso.jsp?ticket=ST-1",
               "http://zhjw.qfnu.edu.cn/sso.jsp?ticket=ST-2"}
EmptyValues == {None, ""}
sso_url == "http://zhjw.qfnu.edu.cn/sso.jsp"
main_url == "http://zhjw.qfnu.edu.cn/jsxsd/framework/xsMain.jsp"
target_url == "http://ids.qfnu.edu.cn/authserver/login?service=http://zhjw.qfnu.edu.cn/sso.jsp"

Usernames == {"2021001"}
Passwords == {"secret-a", "secret-b"}
StatusCodes == {200, 302, 404, 500}
Exceptions == {"ConnectTimeout", "ConnectionError", "SSLError"}

\* A response whose .text is not a string (None): re.search raises TypeError
\* on it.  It stands in the place of a body as a one-element sequence.
NotText == <<"NoneType">>
IsText(html) == html # NotText
TypeError == "TypeError"

NoResponse == [url |-> None, status_code |-> 0, text |-> <<>>]
NoFailure == [step |-> 0, exc |-> None]

\* The SessionManager instance made by the constructor.
ConstructedSession == 1

\* get_student_info has not returned / what it returns.
NoInfo == [returned |-> "no", name |-> <<>>, student_id |-> "absent"]
ReturnedNone == [returned |-> "None", name |-> <<>>, student_id |-> "absent"]

VARIABLES
    pc,            \* position of the current call
    args,          \* (username, password) of the current login call
    exchange,      \* calls of auth_client.get_token in the current run
    redirect_url,  \* local of login / argument of _complete_sso_login
    response,      \* local `response` of _complete_sso_login
    gets,          \* GETs issued through the session in the current run
    failure,       \* the GET whose exception the handler caught, and the exception
    checks,        \* calls of _check_login_success in the current run
    searched,      \* patterns the loop of _check_login_success ran re.search on
    html_content,  \* argument of _check_login_success
    matched,       \* result of _check_login_success
    log,           \* records written to the logger in the current run
    ret,           \* value returned by login
    raised,        \* exception that left login
    session,       \* self.session: the SessionManager instance the client holds
    logged_in,     \* a login call on this client has returned True
    info           \* what get_student_info returned

vars == <<pc, args, exchange, redirect_url, response, gets, failure, checks, searched, html_content,
          matched, log, ret, raised, session, logged_in, info>>

Rec(level, msg, arg) == [level |-> level, msg |-> msg, arg |-> arg]

Init ==
    /\ pc = "idle"
    /\ args = <<None, None>>
    /\ exchange = <<>>
    /\ redirect_url = None
    /\ response = NoResponse
    /\ gets = <<>>
    /\ failure = NoFailure
    /\ checks = 0
    /\ searched = <<>>
    /\ html_content = <<>>
    /\ matched = None
    /\ log = <<>>
    /\ ret = None
    /\ raised = None
    /\ session = ConstructedSession
    /\ logged_in = FALSE
    /\ info = NoInfo

\* ------------------------------------------------------------- login ----
\* `not redirect_url`: None and the empty string are both false.
FalsyNoneOnly(v) == v = None
Falsy(v) == v \in {None, ""}

\* The record login writes on entry: a fixed message, no argument of login.
EntryRecordWithPassword(username, password) == Rec("info", "requesting token", password)
EntryRecord(username, password) == Rec("info", "requesting token", None)

\* login is entered: the first record is logged and get_token is called with
\* the caller's credentials and the fixed service URL.
CallLogin(username, password) ==
    /\ pc \in {"idle", "done", "info_done"}
    /\ pc' = "token_requested"
    /\ args' = <<username, password>>
    /\ exchange' = <<[username |-> username, password |-> password, redir_uri |-> target_url]>>
    /\ redirect_url' = None
    /\ response' = NoResponse
    /\ gets' = <<>>
    /\ failure' = NoFailure
    /\ checks' = 0
    /\ searched' = <<>>
    /\ html_content' = <<>>
    /\ matched' = None
    /\ log' = <<EntryRecord(username, password)>>
    /\ ret' = None
    /\ raised' = None
    /\ info' = NoInfo
    /\ UNCHANGED <<session, logged_in>>

\* get_token returns v: an empty value ends the run with False, a URL is
\* logged and handed to _complete_sso_login.
TokenReturned(v) ==
    /\ pc = "token_requested"
    /\ redirect_url' = v
    /\ IF Falsy(v)
       THEN /\ log' = Append(log, Rec("error", "token failed", None))
            /\ ret' = "False"
            /\ pc' = "done"
       ELSE /\ log' = Append(log, Rec("info", "redirect url", v))
            /\ ret' = ret
            /\ pc' = "token_obtained"
    /\ UNCHANGED <<args, exchange, response, gets, failure, checks, searched, html_content, matched, raised,
                   session, logged_in, info>>

\* get_token raises e: the call is outside every try block of login.
TokenRaised(e) ==
    /\ pc = "token_requested"
    /\ raised' = e
    /\ pc' = "done"
    /\ UNCHANGED <<args, exchange, redirect_url, response, gets, failure, checks, searched, html_content, matched,
                   log, ret, session, logged_in, info>>

\* --------------------------------------------------- _complete_sso_login --
\* The URL of the k-th GET.
StepURLRetry(k, ticket) == IF k = 3 THEN main_url ELSE ticket
StepURL(k, ticket) == IF k = 1 THEN ticket ELSE IF k = 2 THEN sso_url ELSE main_url

PcBefore(k) == <<"token_obtained", "ticket_redeemed", "bootstrapped">>[k]
PcAfter(k) == <<"ticket_redeemed", "bootstrapped", "main_fetched">>[k]

\* Between two GETs the response is only logged: no test of its status.
ContinuesOnlyOn200(resp) == resp.status_code = 200
Continues(resp) == TRUE

\* `except Exception` takes every exception a GET raises.
CatchesTimeoutOnly(e) == e = "ConnectTimeout"
CatchesTransportOnly(e) == e \in Exceptions
Catches(e) == TRUE

\* The record the handler writes: the message with the exception in it.
ErrorRecordNoCause(e) == Rec("error", "sso error", None)
ErrorRecord(e) == Rec("error", "sso error", e)

\* Where the run stands once the handler has taken the exception of GET k.
PcAfterCatchGoesOn(k) == PcAfter(k)
PcAfterCatchRetries(k) == PcBefore(k)
PcAfterCatch(k) == "done"

StatusMsg(k) == <<"ticket status", "sso.jsp status", "main page status">>[k]
HeadersMsg(k) == <<"ticket headers", "sso.jsp headers", "main page headers">>[k]

\* The k-th request of _complete_sso_login, issued through self.session.
Request(k) == [url |-> StepURL(k, redirect_url), allow_redirects |-> TRUE, via |-> session]

\* The k-th session.get returns a response: it replaces the previous one and
\* its status and headers are logged (the records name the logged field).
GetReturned(k, status, body) ==
    /\ pc = PcBefore(k)
    /\ gets' = Append(gets, Request(k))
    /\ response' = [url |-> StepURL(k, redirect_url), status_code |-> status, text |-> body]
    /\ IF Continues(response')
       THEN /\ pc' = PcAfter(k)
            /\ ret' = ret
            /\ log' = log \o <<Rec("info", StatusMsg(k), "status_code"),
                               Rec("debug", HeadersMsg(k), "headers")>>
                          \o (IF k = 1 THEN <<Rec("info", "visiting sso.jsp", None)>> ELSE <<>>)
       ELSE /\ pc' = "done"
            /\ ret' = "False"
            /\ log' = log
    /\ UNCHANGED <<args, exchange, redirect_url, failure, checks, searched, html_content, matched, raised,
                   session, logged_in, info>>

\* The k-th session.get raises e: the handler logs it and returns False.
GetRaised(k, e) ==
    /\ pc = PcBefore(k)
    /\ gets' = Append(gets, Request(k))
    /\ IF Catches(e)
       THEN /\ failure' = [step |-> k, exc |-> e]
            /\ log' = Append(log, ErrorRecord(e))
            /\ ret' = "False"
            /\ raised' = raised
            /\ pc' = PcAfterCatch(k)
       ELSE /\ failure' = failure
            /\ log' = log
            /\ ret' = ret
            /\ raised' = e
            /\ pc' = "done"
    /\ UNCHANGED <<args, exchange, redirect_url, response, checks, searched, html_content, matched,
                   session, logged_in, info>>

\* What _complete_sso_login returns for the page it holds.
LoginResultByStatus(resp) == IF resp.status_code = 200 THEN "True" ELSE "False"
LoginResult(resp) == IF check_login_success(resp.text) THEN "True" ELSE "False"

\* _check_login_success logs the match it stopped at, or the miss.
CheckRecord(html) ==
    IF check_login_success(html)
    THEN Rec("info", "marker found", FirstMatch(1, html))
    ELSE Rec("error", "no marker found", None)

\* The landing page is classified and the result is logged and returned.
\* The call sits inside the try block: when re.search raises, the handler
\* that takes the exceptions of the GETs takes this one too.
Classify ==
    /\ pc = "main_fetched"
    /\ checks' = checks + 1
    /\ html_content' = response.text
    /\ pc' = "done"
    /\ searched' = (IF IsText(html_content') THEN Searched(1, html_content') ELSE <<1>>)
    /\ IF IsText(html_content')
       THEN /\ matched' = (IF check_login_success(html_content') THEN "True" ELSE "False")
            /\ ret' = LoginResult(response)
            /\ log' = log \o <<CheckRecord(html_content'),
                               IF ret' = "True" THEN Rec("info", "login succeeded", None)
                                                ELSE Rec("error", "login failed", None)>>
            /\ UNCHANGED <<failure, raised>>
       ELSE /\ matched' = matched
            /\ IF Catches(TypeError)
               THEN /\ failure' = [step |-> 4, exc |-> TypeError]
                    /\ log' = Append(log, ErrorRecord(TypeError))
                    /\ ret' = "False"
                    /\ raised' = raised
               ELSE /\ raised' = TypeError
                    /\ UNCHANGED <<failure, log, ret>>
    /\ logged_in' = (logged_in \/ ret' = "True")
    /\ UNCHANGED <<args, exchange, redirect_url, response, gets, session, info>>

\* ------------------------------------------------------ get_student_info --
base_url == "http://zhjw.qfnu.edu.cn"
info_url == "http://zhjw.qfnu.edu.cn/jsxsd/framework/xsMain_new.jsp"

\* The statement  var userid = '<digits>';  of the profile page, one token.
USERID == "USERID"

InfoPages == SamplePages \cup {<<USERID>>, <<OPEN, SP, ZHANG, CLOSE, USERID>>, NotText}

\* `not self.session`: self.session is the SessionManager object the
\* constructor stored, and an object is true.
SessionFalsy(sess) == FALSE

\* The carrier get_student_info sends its GET through: self.session.
InfoCarrierFresh(sess) == sess + 1
InfoCarrier(sess) == sess

\* _parse_student_info: the name is group(1) of the name pattern, stripped,
\* kept when it is neither empty nor the logout caption; the student id is
\* taken from the userid statement.
parse_student_info(html) ==
    LET m == SearchSpan(html)
        name == IF m = NoMatch THEN <<>> ELSE Trim(SubSeq(m, 2, Len(m) - 1))
    IN  [returned |-> "dict",
         name |-> IF name # Logout THEN name ELSE <<>>,
         student_id |-> IF \E k \in 1..Len(html) : html[k] = USERID THEN "present" ELSE "absent"]

\* get_student_info is entered: the guard on self.session, then the GET of
\* the profile page (without an allow_redirects argument).
CallGetStudentInfo ==
    /\ pc \in {"idle", "done", "info_done"}
    /\ args' = <<None, None>>
    /\ exchange' = <<>>
    /\ redirect_url' = None
    /\ response' = NoResponse
    /\ failure' = NoFailure
    /\ checks' = 0
    /\ searched' = <<>>
    /\ html_content' = <<>>
    /\ matched' = None
    /\ ret' = None
    /\ raised' = None
    /\ IF SessionFalsy(session)
       THEN /\ log' = <<Rec("error", "please log in first", None)>>
            /\ gets' = <<>>
            /\ info' = ReturnedNone
            /\ pc' = "info_done"
       ELSE /\ log' = <<>>
            /\ gets' = <<[url |-> info_url, via |-> InfoCarrier(session)]>>
            /\ info' = NoInfo
            /\ pc' = "info_requested"
    /\ UNCHANGED <<session, logged_in>>

\* The GET returns: a 200 response is parsed, any other status is logged
\* and None is returned; an error of the parser is taken by the handler.
InfoReturned(status, body) ==
    /\ pc = "info_requested"
    /\ response' = [url |-> info_url, status_code |-> status, text |-> body]
    /\ IF status = 200
       THEN IF IsText(body)
            THEN /\ info' = parse_student_info(body)
                 /\ log' = log
            ELSE /\ info' = ReturnedNone
                 /\ log' = Append(log, Rec("error", "info error", TypeError))
       ELSE /\ info' = ReturnedNone
            /\ log' = Append(log, Rec("error", "info status", "status_code"))
    /\ pc' = "info_done"
    /\ UNCHANGED <<args, exchange, redirect_url, gets, failure, checks, searched, html_content, matched,
                   ret, raised, session, logged_in>>

\* The GET raises: the handler logs the exception and returns None.
InfoRaised(e) ==
    /\ pc = "info_requested"
    /\ info' = ReturnedNone
    /\ log' = Append(log, Rec("error", "info error", e))
    /\ pc' = "info_done"
    /\ UNCHANGED <<args, exchange, redirect_url, response, gets, failure, checks, searched, html_content,
                   matched, ret, raised, session, logged_in>>

Next ==
    \/ \E u \in Usernames, p \in Passwords : CallLogin(u, p)
    \/ \E v \in TicketURLs \cup EmptyValues : TokenReturned(v)
    \/ \E e \in Exceptions : TokenRaised(e)
    \/ \E k \in 1..2, s \in StatusCodes, b \in MidBodies : GetReturned(k, s, b)
    \/ \E s \in StatusCodes, b \in PageBodies \cup {NotText} : GetReturned(3, s, b)
    \/ \E k \in 1..3, e \in Exceptions : GetRaised(k, e)
    \/ Classify
    \/ CallGetStudentInfo
    \/ \E s \in StatusCodes, b \in InfoPages : InfoReturned(s, b)
    \/ \E e \in Exceptions : InfoRaised(e)

Spec == Init /\ [][Next]_vars

\* The steps that are not the caller's: a collaborator call returning or
\* raising, and the straight-line code after it.  Every call is synchronous,
\* so a pending one is answered before anything else happens on the client.
\* Whether a run ends does not hang on what a page says: the landing pages
\* here are the sample pages and a response without text.
Progress ==
    \/ \E v \in TicketURLs \cup EmptyValues : TokenReturned(v)
    \/ \E e \in Exceptions : TokenRaised(e)
    \/ \E k \in 1..3, s \in StatusCodes, b \in MidBodies \cup {NotText} : GetReturned(k, s, b)
    \/ \E k \in 1..3, e \in Exceptions : GetRaised(k, e)
    \/ Classify
    \/ \E s \in StatusCodes, b \in InfoPages : InfoReturned(s, b)
    \/ \E e \in Exceptions : InfoRaised(e)

LiveNext ==
    \/ \E u \in Usernames, p \in Passwords : CallLogin(u, p)
    \/ CallGetStudentInfo
    \/ Progress

LiveSpec == Init /\ [][LiveNext]_vars /\ WF_vars(Progress)

\* ------------------------------------- _check_login_success on its own --
\* The method is called with a body of the caller's choosing.
InitCheck ==
    /\ pc = "check_called"
    /\ args = <<None, None>>
    /\ exchange = <<>>
    /\ redirect_url = None
    /\ response = NoResponse
    /\ gets = <<>>
    /\ failure = NoFailure
    /\ checks = 0
    /\ searched = <<>>
    /\ html_content \in Bodies
    /\ matched = None
    /\ log = <<>>
    /\ ret = None
    /\ raised = None
    /\ session = ConstructedSession
    /\ logged_in = FALSE
    /\ info = NoInfo

\* The pattern loop runs, logs what it found and returns.
CheckLoginSuccess ==
    /\ pc = "check_called"
    /\ checks' = checks + 1
    /\ searched' = Searched(1, html_content)
    /\ matched' = (IF check_login_success(html_content) THEN "True" ELSE "False")
    /\ log' = Append(log, CheckRecord(html_content))
    /\ pc' = "check_returned"
    /\ UNCHANGED <<args, exchange, redirect_url, response, gets, failure, html_content, ret, raised,
                   session, logged_in, info>>

NextCheck == CheckLoginSuccess

CheckSpec == InitCheck /\ [][NextCheck]_vars

\* ------------------------------------------------------- properties ----
Get(url) == [url |-> url, allow_redirects |-> TRUE, via |-> ConstructedSession]

\* A run that got a ticket URL and whose three GETs all returned.
ThreeGetsCompleted ==
    /\ pc = "done"
    /\ redirect_url \in TicketURLs
    /\ failure = NoFailure
    /\ raised = None
    /\ Len(gets) = 3

ContainsLiteral(html) == \E k \in 1..Len(html) : html[k] \in {TITLE, CENTER, DESKTOP, RECORD}

\* C1: login returns True only after three completed GETs, the last of them
\* to xsMain.jsp, and a classifier run that found a marker in that response's
\* body; while the run holds the ticket or sso.jsp response, whatever its
\* body, nothing is returned and the classifier has not run.
C1_AuthenticatedOnlyByLandingPage ==
    /\ ret = "True" =>
          /\ Len(gets) = 3
          /\ failure = NoFailure
          /\ checks = 1
          /\ response.url = main_url
          /\ html_content = response.text
          /\ check_login_success(response.text)
    /\ pc \in {"ticket_redeemed", "bootstrapped"} => (ret = None /\ checks = 0)

C1_Witness ==
    /\ pc = "done"
    /\ ret = "True"
    /\ response.url = main_url
    /\ response.text = <<OPEN, ZHANG, CLOSE>>

\* C2: when get_token returns an empty value, login returns False and the
\* run issues no GET.
C2_EmptyTokenNoGet ==
    (pc = "done" /\ raised = None /\ redirect_url \in EmptyValues)
        => (ret = "False" /\ gets = <<>> /\ checks = 0)

C2_Witness ==
    /\ pc = "done"
    /\ raised = None
    /\ redirect_url = ""
    /\ ret = "False"

\* C3: when get_token returns a URL and no GET raises, the run issues exactly
\* the ticket URL, sso.jsp and xsMain.jsp, in this order, each following
\* redirects, whatever the status codes of the responses.
C3_ThreeGetsInOrder ==
    (pc = "done" /\ redirect_url \in TicketURLs /\ failure = NoFailure /\ raised = None)
        => gets = <<Get(redirect_url), Get(sso_url), Get(main_url)>>

C3_Witness ==
    /\ ThreeGetsCompleted
    /\ response.status_code = 500
    /\ gets = <<Get(redirect_url), Get(sso_url), Get(main_url)>>

\* C4 as stated: a run in which a GET raised returns something other than
\* what a failed credential exchange or a classification miss returns.
C4_Original ==
    (pc = "done" /\ failure.step \in 1..3) => ret # "False"

\* C4 as amended: a run in which a GET raised returns False, the value of a
\* failed exchange and of a classification miss, and the exception is kept
\* only in the last record of the log, an error record.
C4_TransportFailureReturnsFalse ==
    failure.step \in 1..3 =>
        /\ pc = "done"
        /\ ret = "False"
        /\ failure.exc \in Exceptions
        /\ log[Len(log)] = Rec("error", "sso error", failure.exc)

C4_Witness ==
    /\ pc = "done"
    /\ failure = [step |-> 2, exc |-> "SSLError"]
    /\ ret = "False"

\* C5: once the k-th GET has raised, the run has issued k GETs and no more,
\* and the classifier is not run.
C5_NoGetAfterFailure ==
    failure.step \in 1..3 =>
        /\ Len(gets) = failure.step
        /\ checks = 0
        /\ matched = None
        /\ pc = "done"

C5_Witness ==
    /\ pc = "done"
    /\ failure.step = 1
    /\ gets = <<Get(redirect_url)>>

\* C6 as stated: no exception leaves login.
C6_Original == raised = None

\* C6 as amended: an exception of one of the three GETs is caught and turned
\* into the return value False; an exception leaves login only from the
\* get_token call, before any GET and without a return value.
C6_OnlyExchangeExceptionEscapes ==
    /\ failure.step \in 1..3 => (raised = None /\ ret = "False")
    /\ raised # None =>
          /\ pc = "done"
          /\ raised \in Exceptions
          /\ Len(exchange) = 1
          /\ redirect_url = None
          /\ gets = <<>>
          /\ ret = None

C6_Witness ==
    /\ pc = "done"
    /\ raised = "ConnectTimeout"
    /\ gets = <<>>

\* C7: in one run get_token is called once, the URL it returned is requested
\* by at most one GET, at most three GETs are issued, and a run that has
\* returned or raised has ended.
C7_NoRetry ==
    /\ Len(exchange) <= 1
    /\ pc \in {"token_requested", "token_obtained", "ticket_redeemed", "bootstrapped",
               "main_fetched", "done"} => Len(exchange) = 1
    /\ Len(gets) <= 3
    /\ redirect_url \in TicketURLs =>
          Cardinality({k \in 1..Len(gets) : gets[k].url = redirect_url}) <= 1
    /\ (ret # None \/ raised # None) => pc = "done"
    /\ pc = "done" => checks <= 1

C7_Witness ==
    /\ ThreeGetsCompleted
    /\ ret = "False"
    /\ Cardinality({k \in 1..Len(gets) : gets[k].url = redirect_url}) = 1

TextChar(t) == t \in {TUI, CHU, ZHANG, SP}

\* The inner texts of the <span class="glyphicon-class"> elements of a body.
InnerTexts(html) ==
    {SubSeq(html, m[1] + 1, m[2] - 1) :
        m \in {n \in (1..Len(html)) \X (1..Len(html)) :
                  /\ n[1] < n[2]
                  /\ html[n[1]] = OPEN
                  /\ html[n[2]] = CLOSE
                  /\ \A k \in (n[1] + 1)..(n[2] - 1) : TextChar(html[k])}}

NoLiteral(html) == \A k \in 1..Len(html) : html[k] \notin {TITLE, CENTER, DESKTOP, RECORD}

\* C9: a body without any literal marker whose name element holds a text
\* that, trimmed, is neither empty nor the logout caption is classified as
\* logged in, also when the text contains one of the caption's characters.
C9_NameElementMatches ==
    (/\ pc = "check_returned"
     /\ NoLiteral(html_content)
     /\ \E t \in InnerTexts(html_content) : Trim(t) # <<>> /\ Trim(t) # Logout)
        => matched = "True"

\* C10: a body without any literal marker whose name elements are all empty
\* or blank is classified as not logged in.
C10_BlankNameElementNoMatch ==
    (/\ pc = "check_returned"
     /\ NoLiteral(html_content)
     /\ InnerTexts(html_content) # {}
     /\ \A t \in InnerTexts(html_content) : Trim(t) = <<>>)
        => matched = "False"

\* The body holds the logout control: a name element whose text, trimmed, is
\* the logout caption.
HasLogoutControl(html) == \E t \in InnerTexts(html) : Trim(t) = Logout

\* C11 as stated: a body that holds the logout control and none of the four
\* literals is classified as not logged in.
C11_Original ==
    (pc = "check_returned" /\ NoLiteral(html_content) /\ HasLogoutControl(html_content))
        => matched = "False"

\* C11 as amended: a body without any literal whose name elements all hold
\* the logout caption, with or without blanks around it, is classified as not
\* logged in.
C11_LogoutOnlyNoMatch ==
    (/\ pc = "check_returned"
     /\ NoLiteral(html_content)
     /\ HasLogoutControl(html_content)
     /\ \A t \in InnerTexts(html_content) : Trim(t) = Logout)
        => matched = "False"

C11_Witness ==
    /\ pc = "check_returned"
    /\ html_content = <<OPEN, SP, TUI, CHU, SP, CLOSE>>
    /\ matched = "False"

\* C12: a body that holds one of the four literals is classified as logged
\* in, whatever else it holds, a logout control included.
C12_LiteralAlwaysMatches ==
    (pc = "check_returned" /\ ContainsLiteral(html_content)) => matched = "True"

C12_Witness ==
    /\ pc = "check_returned"
    /\ html_content = <<OPEN, TUI, CHU, CLOSE, TITLE>>
    /\ matched = "True"

\* The classifier was called in this run and raised: it was entered and left
\* no result.
ClassifierRaised == checks = 1 /\ matched = None

\* C13 as stated: an error raised by the classifier leaves login.
C13_Original == (pc = "done" /\ ClassifierRaised) => raised # None

\* C13 as amended: an error raised by the classifier is taken by the handler
\* of _complete_sso_login, logged as an error record, and login returns
\* False.
C13_ClassifierErrorCaught ==
    ClassifierRaised =>
        /\ pc = "done"
        /\ raised = None
        /\ ret = "False"
        /\ Len(gets) = 3
        /\ log[Len(log)] = Rec("error", "sso error", TypeError)

C13_Witness ==
    /\ pc = "done"
    /\ ClassifierRaised
    /\ response.text = NotText
    /\ ret = "False"

\* Marker p occurs in the body.
Present(p, html) ==
    IF p <= 4 THEN \E k \in 1..Len(html) : html[k] = Literals[p]
    ELSE SpanMatches(html) # {}

\* C14: when a body holds several markers the loop stops at the one declared
\* first: the patterns after it are not searched, and the record it logs
\* carries the text of that marker, wherever in the body the others stand.
C14_FirstDeclaredMarkerWins ==
    (pc = "check_returned" /\ \E p \in 1..NumPatterns : Present(p, html_content)) =>
        LET first == CHOOSE p \in 1..NumPatterns :
                         /\ Present(p, html_content)
                         /\ \A q \in 1..(p - 1) : ~Present(q, html_content)
            rec == log[Len(log)]
        IN  /\ searched = [q \in 1..first |-> q]
            /\ rec.level = "info"
            /\ rec.msg = "marker found"
            /\ IF first <= 4 THEN rec.arg = <<Literals[first]>>
               ELSE rec.arg[1] = OPEN /\ rec.arg[Len(rec.arg)] = CLOSE

C14_Witness ==
    /\ pc = "check_returned"
    /\ html_content = <<OPEN, ZHANG, CLOSE, TITLE>>
    /\ searched = <<1>>
    /\ log[Len(log)].arg = <<TITLE>>

\* The value a record interpolates is v.  The argument of a "marker found"
\* record is text of the page, every other argument is a string.
Interpolates(rec, v) == rec.msg # "marker found" /\ rec.arg = v

\* C15: no record written during a login call interpolates the username or
\* the password of that call, on any path.
C15_CredentialsNotLogged ==
    args # <<None, None>> =>
        \A i \in 1..Len(log) :
            /\ ~Interpolates(log[i], args[1])
            /\ ~Interpolates(log[i], args[2])

C15_Witness ==
    /\ pc = "done"
    /\ args = <<"2021001", "secret-b">>
    /\ ret = "True"
    /\ Len(log) = 11
    /\ log[2].arg = redirect_url

\* C18: get_student_info on a client none of whose login calls has returned
\* True issues no request and returns None.
C18_NoFetchBeforeLogin ==
    (pc \in {"info_requested", "info_done"} /\ ~logged_in)
        => (gets = <<>> /\ info.returned \in {"no", "None"})

\* C19: every GET of login and the GET of get_student_info go through the
\* SessionManager instance the constructor made, which the client keeps for
\* good: the fetch after a successful login uses the carrier of that login.
C19_OneSessionCarrier ==
    /\ session = ConstructedSession
    /\ \A k \in 1..Len(gets) : gets[k].via = session

C19_Witness ==
    /\ pc = "info_done"
    /\ logged_in
    /\ gets = <<[url |-> info_url, via |-> ConstructedSession]>>
    /\ info.returned = "dict"
    /\ info.student_id = "present"

\* Position of a login run in the order START, TOKEN_REQUESTED,
\* TOKEN_OBTAINED, TICKET_REDEEMED, SERVICE_BOOTSTRAPPED, MAIN_PAGE_FETCHED,
\* terminal.
Rank(p) ==
    CASE p = "idle" -> 0
      [] p = "token_requested" -> 1
      [] p = "token_obtained" -> 2
      [] p = "ticket_redeemed" -> 3
      [] p = "bootstrapped" -> 4
      [] p = "main_fetched" -> 5
      [] p = "done" -> 6
      [] OTHER -> 0

InLoginRun == pc \in {"token_requested", "token_obtained", "ticket_redeemed",
                      "bootstrapped", "main_fetched"}

Authenticated == ret = "True" /\ failure = NoFailure /\ raised = None
NotAuthenticated == ret = "False" /\ failure = NoFailure /\ raised = None
TransportError == (ret = "False" /\ failure # NoFailure /\ raised = None)
                      \/ (ret = None /\ failure = NoFailure /\ raised # None)

\* C17: a login run whose collaborator calls all return or raise ends; it
\* ends in exactly one of the three terminal states; and while it lasts
\* every step takes it to a later position, never to an earlier one.
C17_RunTerminatesMonotonically ==
    /\ InLoginRun ~> (pc = "done")
    /\ [](pc = "done" =>
            /\ Authenticated \/ NotAuthenticated \/ TransportError
            /\ ~(Authenticated /\ NotAuthenticated)
            /\ ~(Authenticated /\ TransportError)
            /\ ~(NotAuthenticated /\ TransportError))
    /\ [](InLoginRun => (ret = None /\ raised = None))
    /\ [][InLoginRun => Rank(pc') > Rank(pc)]_vars

C17_Witness ==
    /\ pc = "done"
    /\ Authenticated
    /\ Len(gets) = 3

====
